---- MODULE Spec2Model ----
(***************************************************************************)
(* Model of met_swords_full_scrape_sanitized.py: the search for object     *)
(* IDs, the per-object reconciliation of API record and page data, the     *)
(* long-description fallback chain, the spreadsheet rows and the           *)
(* checkpointed saves of full_scrape.                                      *)
(*                                                                         *)
(* Python values are records tagged with their type.  A Python string is   *)
(* a sequence of tokens: a token is a run of ordinary characters, one      *)
(* whitespace character (" ", "\n", "x09") or one control character,       *)
(* named by its code ("x07" is BEL).  A dict is a function from the keys   *)
(* it holds.                                                               *)
(***************************************************************************)
EXTENDS Integers, Sequences, FiniteSets, TLC

\* ------------------------------------------------------------------ bounds

MaxIds == 3
MaxSaveEvery == 2
LimitCap == 2

\* ------------------------------------------------------------ Python values

Str(s) == [kind |-> "str", str |-> s, num |-> 0, list |-> <<>>]
Num(n) == [kind |-> "int", str |-> <<>>, num |-> n, list |-> <<>>]
None == [kind |-> "none", str |-> <<>>, num |-> 0, list |-> <<>>]
List(l) == [kind |-> "list", str |-> <<>>, num |-> 0, list |-> l]
EmptyStr == Str(<<>>)
EmptyDict == [k \in {} |-> None]

\* The element of a one-element set: The({F(x) : x \in {e}}) is F(e) with e
\* evaluated once.
The(S) == CHOOSE x \in S : TRUE

Min(a, b) == IF a < b THEN a ELSE b
Max(a, b) == IF a > b THEN a ELSE b

\* bool(v)
Truthy(v) ==
  CASE v.kind = "str" -> v.str # <<>>
    [] v.kind = "int" -> v.num # 0
    [] v.kind = "list" -> v.list # <<>>
    [] OTHER -> FALSE

\* a or b
Or(a, b) == IF Truthy(a) THEN a ELSE b

\* d.get(k, default)
Get(d, k, default) == IF k \in DOMAIN d THEN d[k] ELSE default

\* s[a:]
SliceFrom(s, a) ==
  LET n == Len(s)
      st == IF a < 0 THEN Max(n + a, 0) ELSE Min(a, n)
  IN SubSeq(s, st + 1, n)

\* s[:b]
SliceTo(s, b) ==
  LET n == Len(s)
      en == IF b < 0 THEN Max(n + b, 0) ELSE Min(b, n)
  IN SubSeq(s, 1, en)

\* str(v) of an int, a string or None
StrOf(v) ==
  CASE v.kind = "int" -> <<ToString(v.num)>>
    [] v.kind = "str" -> v.str
    [] OTHER -> <<"None">>

RECURSIVE JoinWith(_, _)
\* sep.join(parts), parts a sequence of token sequences
JoinWith(sep, parts) ==
  IF parts = <<>> THEN <<>>
  ELSE IF Len(parts) = 1 THEN parts[1]
  ELSE parts[1] \o sep \o JoinWith(sep, Tail(parts))

\* -------------------------------------------------------------- CONFIGURATION

MAX_ADDITIONAL_IMAGES == 8
IMAGE_ROOT_DIR == "downloaded_images"

TAB_NAMES ==
  << "Overview", "Signatures, Inscriptions, and Markings", "Provenance", "References" >>

NON_IMAGE_FIELDS ==
  << "objectID", "objectName", "title", "objectBeginDate", "objectEndDate",
     "objectDate", "culture", "period", "dynasty", "reign", "artistDisplayName",
     "artistDisplayBio", "medium", "dimensions", "classification", "department",
     "creditLine", "repository", "objectURL", "longDescription",
     "artworkOverviewText", "signaturesInscriptionsMarkingsText",
     "provenanceText", "referencesText" >>

\* The code of each one-character token the model uses.
CharCode ==
  ("x00" :> 0) @@ ("x07" :> 7) @@ ("x08" :> 8) @@ ("x09" :> 9) @@ ("\n" :> 10)
  @@ ("x0B" :> 11) @@ ("x0C" :> 12) @@ ("\r" :> 13) @@ ("x0E" :> 14)
  @@ ("x1F" :> 31) @@ (" " :> 32) @@ ("x7F" :> 127)

\* The pattern with its first range ending at \x06.
ILLEGAL_CHARS_SHORT(tok) ==
  /\ tok \in DOMAIN CharCode
  /\ LET c == CharCode[tok]
     IN \/ (0 <= c /\ c <= 6)
        \/ (11 <= c /\ c <= 12)
        \/ (14 <= c /\ c <= 31)

\* A match of [\x00-\x08\x0B-\x0C\x0E-\x1F] on one token.
ILLEGAL_CHARS_RE(tok) ==
  /\ tok \in DOMAIN CharCode
  /\ LET c == CharCode[tok]
     IN \/ (0 <= c /\ c <= 8)
        \/ (11 <= c /\ c <= 12)
        \/ (14 <= c /\ c <= 31)

\* ILLEGAL_CHARS_RE.sub("", s)
SubEmpty(s) == SelectSeq(s, LAMBDA tok : ~ILLEGAL_CHARS_RE(tok))

clean_for_excel(value) ==
  IF value.kind = "str" THEN Str(SubEmpty(value.str)) ELSE value

\* ------------------------------------------------------------- XLSX HELPERS

\* Index of the first token equal to t, 0 when there is none.
FirstIndex(s, t) ==
  IF \E i \in 1..Len(s) : s[i] = t
  THEN CHOOSE i \in 1..Len(s) : s[i] = t /\ \A j \in 1..(i - 1) : s[j] # t
  ELSE 0

\* Index of the last token equal to t, 0 when there is none.
LastIndex(s, t) ==
  IF \E i \in 1..Len(s) : s[i] = t
  THEN CHOOSE i \in 1..Len(s) : s[i] = t /\ \A j \in (i + 1)..Len(s) : s[j] # t
  ELSE 0

\* str.lower() on the tokens the model's URLs use.
LowerTable == ("JPG" :> "jpg") @@ ("PNG" :> "png") @@ ("TIF" :> "tif")
Lower(s) == [i \in 1..Len(s) |-> IF s[i] \in DOMAIN LowerTable THEN LowerTable[s[i]] ELSE s[i]]

ALLOWED_EXT == { <<"jpg">>, <<"jpeg">>, <<"png">>, <<"gif">>, <<"tif">>, <<"tiff">>, <<"bmp">> }

\* url.split("?")[0].split(".")[-1].lower(), or "jpg"
parse_ext(url) ==
  LET q == FirstIndex(url, "?")
      base == IF q = 0 THEN url ELSE SubSeq(url, 1, q - 1)
      d == LastIndex(base, ".")
      ext == Lower(SubSeq(base, d + 1, Len(base)))
  IN IF ext \in ALLOWED_EXT THEN ext ELSE <<"jpg">>

\* ------------------------------------------------------------------ text

\* Characters str.strip() and str.split() treat as whitespace.
Whitespace == {" ", "x09", "\n", "\r", "x0B", "x0C", "x1F"}

\* s.strip(): from the first to the last token that is no whitespace
StripTokens(s) ==
  LET ink == {i \in 1..Len(s) : s[i] \notin Whitespace}
  IN IF ink = {} THEN <<>>
     ELSE SubSeq(s, CHOOSE i \in ink : \A j \in ink : i <= j,
                    CHOOSE i \in ink : \A j \in ink : i >= j)
Strip(s) == The({StripTokens(x) : x \in {s}})

\* len(s.split()): the number of maximal runs of non-whitespace tokens
WordCount(s) ==
  Cardinality({i \in 1..Len(s) :
                 s[i] \notin Whitespace /\ (i = 1 \/ s[i - 1] \in Whitespace)})

\* The lines of s given the indexes nl of its "\n" tokens, in order: one
\* line up to each "\n", and what follows the last when not empty.
LinesAt(s, nl) ==
  LET upto == [j \in 1..Len(nl) |->
                 SubSeq(s, (IF j = 1 THEN 0 ELSE nl[j - 1]) + 1, nl[j] - 1)]
      last == IF nl = <<>> THEN 0 ELSE nl[Len(nl)]
  IN IF last < Len(s) THEN Append(upto, SubSeq(s, last + 1, Len(s))) ELSE upto

\* s.splitlines(), lines ending at "\n"
SplitLines(s) ==
  The({LinesAt(x, SelectSeq([i \in 1..Len(x) |-> i], LAMBDA i : x[i] = "\n")) : x \in {s}})

\* [x for x in xs if x and x not in drop]
Keep(xs, drop) == SelectSeq(xs, LAMBDA x : x # <<>> /\ x \notin drop)

\* element.get_text(sep, strip=True): the stripped, non-empty text nodes joined
get_text(nodes, sep) ==
  The({JoinWith(sep, parts) :
         parts \in {Keep([i \in 1..Len(nodes) |-> StripTokens(nodes[i])], {})}})

\* ---------------------------------------------------------------- SEARCH
\* An HTTP exchange is [exc, status, json, obj]: exc when requests.get raises;
\* json is "malformed" (resp.json() raises), "other" (JSON that is no object)
\* or "object", and then obj is the decoded dict.

\* The search without its status check.
no_raise_for_status(resp) == FALSE

\* resp.raise_for_status(): raises for 4xx and 5xx
raise_for_status(resp) == 400 <= resp.status /\ resp.status < 600

\* fetch_object_ids_from_search(limit) on the response resp:
\* [raised, ids]; raised when the call ends with an exception.
fetch_object_ids_from_search(limit, resp) ==
  IF resp.exc \/ raise_for_status(resp) \/ resp.json # "object"
  THEN [raised |-> TRUE, ids |-> <<>>]
  ELSE LET data == resp.obj
           all_ids == Or(Get(data, "objectIDs", None), List(<<>>)).list
       IN [raised |-> FALSE,
           ids |-> IF limit.kind # "none" THEN SliceTo(all_ids, limit.num) ELSE all_ids]

\* ------------------------------------------------------------------- API

\* fetch_api_data(object_id) on the response resp
fetch_api_data(resp) ==
  IF resp.exc THEN EmptyDict
  ELSE IF resp.status # 200 THEN EmptyDict
  ELSE IF resp.json = "malformed" THEN EmptyDict
  ELSE resp.obj

\* ------------------------------------------------------- LONG DESCRIPTION
\* A page is [spans, meta, og, paras].  A marker span is [wraps, nodes]:
\* wraps is the set of ancestor levels (1 = parent) whose class holds
\* "read-more-wrapper", nodes its text nodes.  meta and og are the content
\* attribute of the first such tag (None: no tag, or no content attribute).
\* paras are the text nodes of each <p>.

WRAPPER_LEVELS == 6
MIN_WORDS == 30
MAX_PARAS == 3

RECURSIVE PreferredSpan(_)
\* The first loop: the text of the first span with a read-more-wrapper
\* ancestor within range(6) and a non-empty text; <<>> when there is none.
PreferredSpan(spans) ==
  IF spans = <<>> THEN <<>>
  ELSE The({ IF (\E lvl \in 1..WRAPPER_LEVELS : lvl \in Head(spans).wraps) /\ text # <<>>
             THEN text
             ELSE PreferredSpan(Tail(spans)) :
             text \in {get_text(Head(spans).nodes, <<" ">>)} })

RECURSIVE LongestSpan(_, _, _)
\* The second loop, from (best, best_len): the first span with the most
\* words, when more than 30.
LongestSpan(spans, best, best_len) ==
  IF spans = <<>> THEN best
  ELSE The({ The({ IF t # <<>> /\ wc > best_len /\ wc > MIN_WORDS
                   THEN LongestSpan(Tail(spans), t, wc)
                   ELSE LongestSpan(Tail(spans), best, best_len) :
                   wc \in {WordCount(t)} }) :
             t \in {get_text(Head(spans).nodes, <<" ">>)} })

\* The content taken without .strip().
MetaContentRaw(content) == IF Truthy(content) THEN content.str ELSE <<>>

\* meta["content"].strip() when the tag has a truthy content, else <<>>
MetaContent(content) == IF Truthy(content) THEN StripTokens(content.str) ELSE <<>>

\* The texts of the non-empty paragraphs.
ParaTexts(paras) ==
  The({Keep(texts, {}) : texts \in {[i \in 1..Len(paras) |-> get_text(paras[i], <<" ">>)]}})

\* fetch_long_description_from_html(object_url) on the response resp
\* (resp.page is the parsed page when the status is 200)
fetch_long_description_from_html(object_url, resp) ==
  IF ~Truthy(object_url) THEN EmptyStr
  ELSE IF resp.exc \/ resp.status # 200 THEN EmptyStr
  ELSE Str(The({ IF s1 # <<>> THEN s1 ELSE
       The({ IF s2 # <<>> THEN s2 ELSE
       The({ IF s3 # <<>> THEN s3 ELSE
       The({ IF s4 # <<>> THEN s4 ELSE
       The({ JoinWith(<<"\n", "\n">>, SliceTo(texts, MAX_PARAS)) :
               texts \in {ParaTexts(resp.page.paras)} }) :
               s4 \in {MetaContent(resp.page.og)} }) :
               s3 \in {MetaContent(resp.page.meta)} }) :
               s2 \in {LongestSpan(resp.page.spans, <<>>, 0)} }) :
               s1 \in {PreferredSpan(resp.page.spans)} }))

\* -------------------------------------------------------- PLAYWRIGHT HELPERS
\* What the browser does for one object: [goto, evaluate, title, images, tabs].
\* goto and evaluate are "ok" or "raise" (page.goto, and the page.evaluate of
\* the title and the images); tabs maps each tab label to [state, raw]:
\* "absent" (loc.count() = 0), "clickfail" (count or click raises),
\* "evalraise" (the section's page.evaluate raises) or "text", raw being the
\* innerText of the Artwork Details container.

PANEL_LABELS == { <<"Artwork Details">>, <<"Object Information">> }
TabNameLines == { <<TAB_NAMES[i]>> : i \in 1..Len(TAB_NAMES) }

\* get_artwork_details_section_text: (text or "").strip()
get_artwork_details_section_text(raw) == Strip(raw)

clean_panel_text(raw) ==
  IF raw = <<>> THEN <<>>
  ELSE The({ The({ Strip(JoinWith(<<"\n">>, cleaned)) :
                   cleaned \in {Keep([i \in 1..Len(split) |-> StripTokens(split[i])],
                                     PANEL_LABELS \cup TabNameLines)} }) :
             split \in {SplitLines(raw)} })

PageUrl(object_id) ==
  Str(<<"https://www.metmuseum.org/art/collection/search/", ToString(object_id)>>)

\* The all-empty page data of a failed navigation.
EmptyTabData(object_id) ==
  ("pageTitle" :> EmptyStr) @@ ("pageImageURLs" :> List(<<>>))
  @@ ("artworkOverviewText" :> EmptyStr)
  @@ ("signaturesInscriptionsMarkingsText" :> EmptyStr)
  @@ ("provenanceText" :> EmptyStr) @@ ("referencesText" :> EmptyStr)
  @@ ("objectURL_page" :> PageUrl(object_id))

TabField ==
  ("Overview" :> "artworkOverviewText")
  @@ ("Signatures, Inscriptions, and Markings" :> "signaturesInscriptionsMarkingsText")
  @@ ("Provenance" :> "provenanceText") @@ ("References" :> "referencesText")

\* The text the tab loop leaves in a tab's field.
PanelText(tab) ==
  IF tab.state = "text"
  THEN Str(The({clean_panel_text(raw) : raw \in {get_artwork_details_section_text(tab.raw)}}))
  ELSE EmptyStr

\* The clone rule clearing the first panel of each pair.
DropOriginals(result) ==
  The({ IF r1["referencesText"] = r1["provenanceText"]
        THEN [r1 EXCEPT !["provenanceText"] = EmptyStr]
        ELSE r1 :
        r1 \in { IF result["signaturesInscriptionsMarkingsText"] = result["artworkOverviewText"]
                 THEN [result EXCEPT !["artworkOverviewText"] = EmptyStr]
                 ELSE result } })

\* remove duplicate-tab clones
DropClones(result) ==
  The({ IF r1["referencesText"] = r1["provenanceText"]
        THEN [r1 EXCEPT !["referencesText"] = EmptyStr]
        ELSE r1 :
        r1 \in { IF result["signaturesInscriptionsMarkingsText"] = result["artworkOverviewText"]
                 THEN [result EXCEPT !["signaturesInscriptionsMarkingsText"] = EmptyStr]
                 ELSE result } })

\* scrape_tabs_for_object(object_id, page): [raised, data]
scrape_tabs_for_object(object_id, b) ==
  IF b.goto = "raise" THEN [raised |-> FALSE, data |-> EmptyTabData(object_id)]
  ELSE IF b.evaluate = "raise" \/ \E i \in 1..Len(TAB_NAMES) : b.tabs[TAB_NAMES[i]].state = "evalraise"
  THEN [raised |-> TRUE, data |-> EmptyDict]
  ELSE The({ [raised |-> FALSE, data |-> DropClones(result)] :
             result \in {
               ("pageTitle" :> Str(Strip(b.title))) @@ ("pageImageURLs" :> List(b.images))
               @@ [f \in {TabField[TAB_NAMES[i]] : i \in 1..Len(TAB_NAMES)} |->
                     PanelText(b.tabs[CHOOSE l \in DOMAIN TabField : TabField[l] = f])]
               @@ ("objectURL_page" :> PageUrl(object_id)) } })

\* The header row of write_headers.
Headers ==
  LET add_url_cols == [i \in 1..MAX_ADDITIONAL_IMAGES |->
                         Str(<<"additionalImage_", ToString(i), "_URL">>)]
      add_path_cols == [i \in 1..MAX_ADDITIONAL_IMAGES |->
                          Str(<<"additionalImage_", ToString(i), "_LocalPath">>)]
  IN <<Str(<<"primaryImageThumbnail">>)>>
     \o [i \in 1..Len(NON_IMAGE_FIELDS) |-> Str(<<NON_IMAGE_FIELDS[i]>>)]
     \o <<Str(<<"primaryImageURL">>), Str(<<"primaryImageLocalPath">>)>>
     \o add_url_cols \o add_path_cols

\* get_column_letter of the thumbnail column, the first header.
primary_thumb_col == "A"

\* ------------------------------------------------------ MAIN SCRAPER: one object

\* bool(api_data)
HasData(api_data) == DOMAIN api_data # {}

\* api_data.get("objectURL") if api_data and api_data.get("objectURL")
\* else tab_data["objectURL_page"]
ObjectUrlHtml(api_data, tab_data) ==
  IF HasData(api_data) /\ Truthy(Get(api_data, "objectURL", None))
  THEN api_data["objectURL"]
  ELSE tab_data["objectURL_page"]

\* api_data.get("primaryImage", "") if api_data else ""
ApiPrimary(api_data) ==
  IF HasData(api_data) THEN Get(api_data, "primaryImage", EmptyStr) ELSE EmptyStr

\* api_data.get("additionalImages") if api_data else [], made a list:
\* [raised, list], raised when list(api_additional) is a TypeError.
ApiAdditional(api_data) ==
  LET v == IF HasData(api_data) THEN Get(api_data, "additionalImages", None) ELSE List(<<>>)
  IN CASE v.kind = "list" -> [raised |-> FALSE, list |-> v.list]
       [] v.kind = "str" ->
            [raised |-> FALSE, list |-> [i \in 1..Len(v.str) |-> Str(<<v.str[i]>>)]]
       [] OTHER -> [raised |-> TRUE, list |-> <<>>]

\* tab_data.get("pageImageURLs", []) or []
PageImages(tab_data) == Or(Get(tab_data, "pageImageURLs", List(<<>>)), List(<<>>)).list

\* The page's first image preferred to the API's.
PrimaryImagePageFirst(api_primary, page_images) ==
  Or(IF page_images # <<>> THEN page_images[1] ELSE EmptyStr, api_primary)

\* api_primary or (page_images[0] if page_images else "")
PrimaryImage(api_primary, page_images) ==
  Or(api_primary, IF page_images # <<>> THEN page_images[1] ELSE EmptyStr)

\* (api_additional or page_images[1:])[:MAX_ADDITIONAL_IMAGES]
AdditionalImages(api_additional, page_images) ==
  SliceTo(IF api_additional # <<>> THEN api_additional ELSE SliceFrom(page_images, 1),
          MAX_ADDITIONAL_IMAGES)

\* The record's non-image fields.
RecordField(field, object_id, api_data, tab_data, object_url_html, long_desc) ==
  CASE field = "objectID" -> Get(api_data, "objectID", Num(object_id))
    [] field = "title" ->
         Or(Get(api_data, "title", EmptyStr), Get(tab_data, "pageTitle", EmptyStr))
    [] field = "objectURL" -> Or(Get(api_data, "objectURL", EmptyStr), object_url_html)
    [] field = "longDescription" -> long_desc
    [] field \in {"artworkOverviewText", "signaturesInscriptionsMarkingsText",
                  "provenanceText", "referencesText"} -> Get(tab_data, field, EmptyStr)
    [] OTHER -> IF HasData(api_data) THEN Get(api_data, field, EmptyStr) ELSE EmptyStr

\* os.path.join(IMAGE_ROOT_DIR, oid_str, f"{oid_str}_{n}.{ext}")
LocalPath(oid_str, n, url) ==
  Str(<<IMAGE_ROOT_DIR, "/">> \o oid_str \o <<"/">> \o oid_str
      \o <<"_", ToString(n), ".">> \o parse_ext(url))

\* The row before cleaning: the thumbnail placeholder, the non-image
\* columns, the primary URL and path, the additional URLs, their paths.
RawRow(record, primary_image, primary_local, additional_images, add_local_paths) ==
  <<EmptyStr>> \o record \o <<primary_image, primary_local>>
  \o [i \in 1..MAX_ADDITIONAL_IMAGES |->
        IF i <= Len(additional_images) THEN additional_images[i] ELSE EmptyStr]
  \o [i \in 1..MAX_ADDITIONAL_IMAGES |->
        IF i <= Len(add_local_paths) THEN add_local_paths[i] ELSE EmptyStr]

\* The image URLs, the record and the local paths of one object, then its
\* row, raw and cleaned.
Reconcile(object_id, api_data, tab_data, object_url_html, long_desc, api_additional) ==
  The({ The({ [raised |-> FALSE, long_desc |-> long_desc,
               primary_image |-> m.primary_image,
               additional_images |-> m.additional_images,
               primary_local_abs |-> m.primary_local,
               raw |-> raw, row |-> [i \in 1..Len(raw) |-> clean_for_excel(raw[i])]] :
              raw \in {RawRow(m.record, m.primary_image, m.primary_local,
                              m.additional_images,
                              [i \in 1..Len(m.additional_images) |->
                                 LocalPath(m.oid_str, i + 1, m.additional_images[i].str)])} }) :
        m \in { The({ [primary_image |-> primary_image,
                       additional_images |->
                         AdditionalImages(api_additional, PageImages(tab_data)),
                       record |-> record,
                       oid_str |-> StrOf(record[1]),
                       primary_local |-> IF Truthy(primary_image)
                                         THEN LocalPath(StrOf(record[1]), 1, primary_image.str)
                                         ELSE EmptyStr] :
                      primary_image \in {PrimaryImage(ApiPrimary(api_data), PageImages(tab_data))},
                      record \in {[i \in 1..Len(NON_IMAGE_FIELDS) |->
                                    RecordField(NON_IMAGE_FIELDS[i], object_id, api_data,
                                                tab_data, object_url_html, long_desc)]} }) } })

\* The loop body of full_scrape from the long description to the cleaned
\* row, for object_id with its API record, page data and the response of the
\* long-description fetch: [raised, long_desc, primary_image,
\* additional_images, primary_local_abs, raw, row]; raised when the body ends
\* with an exception, raw the row before cleaning.
BuildRow(object_id, api_data, tab_data, long_resp) ==
  The({ The({ IF ApiAdditional(api_data).raised
              THEN [raised |-> TRUE, long_desc |-> long_desc, primary_image |-> EmptyStr,
                    additional_images |-> <<>>, primary_local_abs |-> EmptyStr,
                    raw |-> <<>>, row |-> <<>>]
              ELSE Reconcile(object_id, api_data, tab_data, object_url_html, long_desc,
                             ApiAdditional(api_data).list) :
              long_desc \in {fetch_long_description_from_html(object_url_html, long_resp)} }) :
        object_url_html \in {ObjectUrlHtml(api_data, tab_data)} })

\* The image anchored one row below the row given.
embed_image_below(imgs, heights, store, row, col, url, filepath, w, h, net) ==
  LET need == filepath.str \notin store
      stored == IF need THEN store \cup {filepath.str} ELSE store
  IN IF ~Truthy(url) \/ ~Truthy(filepath) \/ col = "" \/ (need /\ net \in {"raise", "non200"})
     THEN [images |-> imgs, row_height |-> heights, files |-> store]
     ELSE IF net = "badimage"
     THEN [images |-> imgs, row_height |-> heights, files |-> stored]
     ELSE [images |-> Append(imgs, [anchor |-> <<col, row + 1>>, width |-> w, height |-> h]),
           row_height |-> ((row + 1) :> (h * 8) \div 10) @@ heights,
           files |-> stored]

\* embed_image(ws, row, col, url, filepath, w, h) with the image sheet
\* (images, row_height), the local image store (files) and what the network
\* and the image library do (net: "ok", "non200", "raise", "badimage"):
\* [images, row_height, files].
embed_image(imgs, heights, store, row, col, url, filepath, w, h, net) ==
  LET same == [images |-> imgs, row_height |-> heights, files |-> store]
      need == filepath.str \notin store
      stored == IF need THEN store \cup {filepath.str} ELSE store
      old == IF row \in DOMAIN heights THEN heights[row] ELSE 0
  IN IF ~Truthy(url) \/ ~Truthy(filepath) \/ col = "" THEN same
     ELSE IF need /\ net \in {"raise", "non200"} THEN same
     ELSE IF net = "badimage" THEN [same EXCEPT !.files = stored]
     ELSE [images |-> Append(imgs, [anchor |-> <<col, row>>, width |-> w, height |-> h]),
           row_height |-> (row :> Max(old, (h * 8) \div 10)) @@ heights,
           files |-> stored]

\* The clamp without its lower bound.
ClampOffsetAbove(offset, total_all) ==
  IF offset > total_all THEN total_all ELSE offset

\* start_offset clamped to [0, total_all]
ClampOffset(offset, total_all) ==
  LET o == IF offset < 0 THEN 0 ELSE offset
  IN IF o > total_all THEN total_all ELSE o

\* The periodic save tested on the count before the increment.
CheckpointDueBefore(n, every) == (n - 1) % every = 0

\* if processed % save_every == 0
CheckpointDue(n, every) == n % every = 0

\* The file wb.save leaves: the workbook's rows when it succeeds ("ok"), the
\* old file when it fails before writing ("denied"), a truncated file when it
\* fails while writing ("full").
NoFile == [exists |-> FALSE, valid |-> FALSE, rows |-> <<>>]
SavedFile(rows) == [exists |-> TRUE, valid |-> TRUE, rows |-> rows]
TruncatedFile == [exists |-> TRUE, valid |-> FALSE, rows |-> <<>>]
SaveOutcomes == {"ok", "denied", "full"}
Save(old, rows, outcome) ==
  CASE outcome = "ok" -> SavedFile(rows)
    [] outcome = "denied" -> old
    [] OTHER -> TruncatedFile

\* ---------------------------------------------------------------- ENTRY POINT

SAVE_EVERY_MAIN == 25

DigitValue ==
  ("0" :> 0) @@ ("1" :> 1) @@ ("2" :> 2) @@ ("3" :> 3) @@ ("4" :> 4) @@ ("5" :> 5)
  @@ ("6" :> 6) @@ ("7" :> 7) @@ ("8" :> 8) @@ ("9" :> 9)

\* int(os.environ.get("START_OFFSET", "0")), 0 on ValueError; env is None
\* when the variable is unset.  A number is an optional sign and one token of
\* digits, with whitespace around it allowed.
ParseStartOffset(env) ==
  LET s == Strip(IF env.kind = "none" THEN <<"0">> ELSE env.str)
      neg == s # <<>> /\ Head(s) = "-"
      digits == IF s # <<>> /\ Head(s) \in {"-", "+"} THEN Tail(s) ELSE s
  IN IF Len(digits) = 1 /\ digits[1] \in DOMAIN DigitValue
     THEN (IF neg THEN 0 - DigitValue[digits[1]] ELSE DigitValue[digits[1]])
     ELSE 0


\* ------------------------------------------------------------------- inputs

Response(exc, status, json, obj) == [exc |-> exc, status |-> status, json |-> json, obj |-> obj]
NetworkError == Response(TRUE, 0, "malformed", EmptyDict)

\* The i-th object ID of the search result: distinct, not in numeric order.
IdAt(i) == 1000 - 37 * i + 90 * (i % 2)
IdList(n) == [i \in 1..n |-> Num(IdAt(i))]

\* What the search endpoint may answer to requests.get(SEARCH_URL, ...).
SearchResponses ==
  {NetworkError}
  \cup {Response(FALSE, 200, "object", "objectIDs" :> List(IdList(n))) : n \in 0..MaxIds}
  \cup {Response(FALSE, 200, "object", "objectIDs" :> None),
        Response(FALSE, 200, "object", "total" :> Num(0)),
        Response(FALSE, 200, "malformed", EmptyDict),
        Response(FALSE, 204, "malformed", EmptyDict),
        Response(FALSE, 200, "other", EmptyDict)}
  \cup {Response(FALSE, st, "malformed", EmptyDict) : st \in {300, 404, 500}}
  \cup {Response(FALSE, st, "object", "message" :> Str(<<"error">>)) : st \in {300, 404, 500}}
  \cup {Response(FALSE, st, "object", "objectIDs" :> List(IdList(1))) : st \in {300, 404, 500}}

Url(name) == Str(<<"https://images.metmuseum.org/", name, ".", "jpg">>)
UrlList(prefix, n) == [i \in 1..n |-> Url(prefix \o ToString(i))]

\* A complete API record of object_id, and one without the image lists.
FullRecord(object_id) ==
  ("objectID" :> Num(object_id)) @@ ("title" :> Str(<<"Sword", "x07", " ", "x09", "hilt">>))
  @@ ("objectBeginDate" :> Num(1500)) @@ ("culture" :> Str(<<"French">>))
  @@ ("objectURL" :> Str(<<"https://www.metmuseum.org/art/collection/search/",
                           ToString(object_id)>>))
  @@ ("primaryImage" :> Url("main")) @@ ("additionalImages" :> List(UrlList("add", 2)))
PartialRecord(object_id) ==
  ("objectID" :> Num(object_id)) @@ ("title" :> Str(<<"Dagger">>))

\* A page with a meta description only.
MetaPage ==
  [spans |-> <<>>, meta |-> Str(<<"A", " ", "fine", " ", "blade.">>), og |-> None,
   paras |-> <<>>]
PageResponse(exc, status, page) == [exc |-> exc, status |-> status, page |-> page]
EmptyPage == [spans |-> <<>>, meta |-> None, og |-> None, paras |-> <<>>]

Tab(state, raw) == [state |-> state, raw |-> raw]
OverviewRaw == <<"Artwork Details", "\n", "Overview", "\n", " ", "Title:", " ", "Sword", " ">>
\* A browser that shows the object's page, with two of the four tabs.
GoodBrowser ==
  [goto |-> "ok", evaluate |-> "ok", title |-> <<"Sword", " ">>,
   images |-> UrlList("page", 2),
   tabs |-> ("Overview" :> Tab("text", OverviewRaw))
            @@ ("Signatures, Inscriptions, and Markings" :> Tab("absent", <<>>))
            @@ ("Provenance" :> Tab("text", <<"Ex", " ", "coll.", "\n", "Provenance">>))
            @@ ("References" :> Tab("clickfail", <<>>))]

\* What can happen to one object: the API response, the browser, the
\* response of the long-description fetch, the image download.
Scenario(api, b, long, net) == [api |-> api, browser |-> b, long |-> long, net |-> net]
Scenarios(object_id) ==
  LET full == Response(FALSE, 200, "object", FullRecord(object_id))
      page == PageResponse(FALSE, 200, MetaPage)
  IN { Scenario(full, GoodBrowser, page, "ok"),
       Scenario(NetworkError, GoodBrowser, page, "ok"),
       Scenario(Response(FALSE, 404, "object", "message" :> Str(<<"error">>)),
                [GoodBrowser EXCEPT !.goto = "raise"], PageResponse(TRUE, 0, EmptyPage), "ok"),
       Scenario(Response(FALSE, 200, "malformed", EmptyDict),
                [GoodBrowser EXCEPT !.evaluate = "raise"], page, "raise"),
       Scenario(full, GoodBrowser, page, "non200"),
       Scenario(full, [GoodBrowser EXCEPT !.tabs["Overview"] = Tab("evalraise", <<>>)],
                PageResponse(FALSE, 404, EmptyPage), "badimage"),
       Scenario(Response(FALSE, 200, "object", PartialRecord(object_id)),
                GoodBrowser, page, "ok") }

\* START_OFFSET in the environment: unset, not a number, or a number.
EnvOffsets ==
  {None, Str(<<"abc">>), Str(<<>>), Str(<<"-", "1">>), Str(<<" ", "1", "\n">>)}
  \cup {Str(<<ToString(k)>>) : k \in 0..(MaxIds + 1)}

\* -------------------------------------------------------------------- state

VARIABLES
  pc,               \* where the run is: "start", "enumerating", "launch", "loop", "done", "aborted"
  env_offset,       \* START_OFFSET as __main__ read it (None: unset, or full_scrape called directly)
  save_every,       \* full_scrape's parameters
  limit,
  start_offset_arg,
  requests,         \* search requests sent
  search_resp,      \* the response to the search request
  all_ids,
  start_offset,     \* after clamping
  object_ids,
  sheet,            \* ws: the rows appended
  images,           \* ws: the images anchored
  row_height,       \* ws.row_dimensions[row].height, where set
  files,            \* the local image store: the paths that exist
  disk,             \* the file at output_xlsx
  saves,            \* calls of wb.save
  row_idx,
  processed,
  idx,              \* objects the loop has taken from object_ids
  browser,          \* "none", "open", "closed", "stopped"
  err,              \* the exception that ended the run, "" when none
  loc,              \* the loop body's locals for the last object taken
  call,             \* a helper called on its own: its name and arguments
  ret               \* and what it returned

runVars == <<pc, env_offset, save_every, limit, start_offset_arg, requests, search_resp,
             all_ids, start_offset, object_ids, sheet, images, row_height, files, disk,
             saves, row_idx, processed, idx, browser, err, loc>>
vars == <<runVars, call, ret>>

NoLoc == [object_id |-> 0, api_data |-> EmptyDict, tab_data |-> EmptyDict,
          tab_raised |-> FALSE, out |-> BuildRow(0, EmptyDict, EmptyTabData(0),
                                                 PageResponse(TRUE, 0, EmptyPage))]
NoCall == [name |-> "", args |-> <<>>]
NoRet == [returned |-> FALSE, raised |-> FALSE, value |-> None]

\* Before full_scrape is called.
NotStarted ==
  /\ pc = "start"
  /\ env_offset = None
  /\ save_every = 0
  /\ limit = None
  /\ start_offset_arg = 0
  /\ requests = 0
  /\ search_resp = NetworkError
  /\ all_ids = <<>>
  /\ start_offset = 0
  /\ object_ids = <<>>
  /\ sheet = <<>>
  /\ images = <<>>
  /\ row_height = <<>>
  /\ files = {}
  /\ disk = NoFile
  /\ saves = 0
  /\ row_idx = 0
  /\ processed = 0
  /\ idx = 0
  /\ browser = "none"
  /\ err = ""
  /\ loc = NoLoc

Init ==
  /\ NotStarted
  /\ call = NoCall
  /\ ret = NoRet

\* __main__: full_scrape(output_xlsx, save_every=25, limit=None, start_offset)
Main ==
  /\ pc = "start"
  /\ \E env \in EnvOffsets :
       /\ env_offset' = env
       /\ start_offset_arg' = ParseStartOffset(env)
  /\ save_every' = SAVE_EVERY_MAIN
  /\ limit' = None
  /\ pc' = "enumerating"
  /\ UNCHANGED <<requests, search_resp, all_ids, start_offset, object_ids, sheet, images,
                 row_height, files, disk, saves, row_idx, processed, idx, browser, err,
                 loc, call, ret>>

\* full_scrape called with its own parameters, as in the small test run.
CallFullScrape ==
  /\ pc = "start"
  /\ \E every \in 1..MaxSaveEvery, lim \in {None, Num(LimitCap)},
        offset \in (0 - 1)..(MaxIds + 1) :
       /\ save_every' = every
       /\ limit' = lim
       /\ start_offset_arg' = offset
  /\ pc' = "enumerating"
  /\ UNCHANGED <<env_offset, requests, search_resp, all_ids, start_offset, object_ids,
                 sheet, images, row_height, files, disk, saves, row_idx, processed, idx,
                 browser, err, loc, call, ret>>

\* full_scrape up to the browser: the search, the clamped offset, the slice,
\* the workbook with its header row.
Enumerate ==
  /\ pc = "enumerating"
  /\ \E resp \in SearchResponses :
       LET found == fetch_object_ids_from_search(limit, resp)
           ids == [i \in 1..Len(found.ids) |-> found.ids[i].num]
           offset == ClampOffset(start_offset_arg, Len(ids))
       IN /\ requests' = requests + 1
          /\ search_resp' = resp
          /\ IF found.raised
             THEN /\ pc' = "aborted"
                  /\ err' = "enumeration"
                  /\ UNCHANGED <<all_ids, start_offset, object_ids, sheet, row_idx>>
             ELSE /\ pc' = "launch"
                  /\ err' = ""
                  /\ all_ids' = ids
                  /\ start_offset' = offset
                  /\ object_ids' = SliceFrom(ids, offset)
                  /\ sheet' = <<Headers>>
                  /\ row_idx' = 2
  /\ UNCHANGED <<env_offset, save_every, limit, start_offset_arg, images, row_height,
                 files, disk, saves, processed, idx, browser, loc, call, ret>>

\* p.chromium.launch(headless=True); browser.new_page()
Launch ==
  /\ pc = "launch"
  /\ browser' = "open"
  /\ pc' = "loop"
  /\ UNCHANGED <<env_offset, save_every, limit, start_offset_arg, requests, search_resp,
                 all_ids, start_offset, object_ids, sheet, images, row_height, files,
                 disk, saves, row_idx, processed, idx, err, loc, call, ret>>

\* The loop body after the row is built: the append, the thumbnail, the
\* counters and the periodic save, with its outcome should one be due.
WriteRow(object_id, api_data, tab_data, tab_raised, out, after, outcome) ==
  /\ idx' = idx + 1
  /\ loc' = [object_id |-> object_id, api_data |-> api_data, tab_data |-> tab_data,
             tab_raised |-> tab_raised, out |-> out]
  /\ IF out.raised
     THEN /\ pc' = "aborted"
          /\ err' = "TypeError"
          /\ browser' = "stopped"
          /\ UNCHANGED <<sheet, images, row_height, files, disk, saves, row_idx, processed>>
     ELSE /\ sheet' = Append(sheet, out.row)
          /\ images' = after.images
          /\ row_height' = after.row_height
          /\ files' = after.files
          /\ row_idx' = row_idx + 1
          /\ processed' = processed + 1
          /\ IF CheckpointDue(processed + 1, save_every)
             THEN /\ saves' = saves + 1
                  /\ disk' = Save(disk, sheet', outcome)
                  /\ IF outcome = "ok"
                     THEN UNCHANGED <<pc, err, browser>>
                     ELSE /\ pc' = "aborted"
                          /\ err' = "save"
                          /\ browser' = "stopped"
             ELSE UNCHANGED <<disk, saves, pc, err, browser>>

\* One pass of the loop body for object_id under scenario sc.
ProcessWith(object_id, sc, outcome) ==
  \E api_data \in {fetch_api_data(sc.api)},
     scraped \in {scrape_tabs_for_object(object_id, sc.browser)} :
    \E tab_data \in {IF scraped.raised THEN EmptyTabData(object_id) ELSE scraped.data} :
      \E out \in {BuildRow(object_id, api_data, tab_data, sc.long)} :
        \E after \in {IF Truthy(out.primary_image) /\ Truthy(out.primary_local_abs)
                      THEN embed_image(images, row_height, files, row_idx,
                                       primary_thumb_col, out.primary_image,
                                       out.primary_local_abs, 150, 150, sc.net)
                      ELSE [images |-> images, row_height |-> row_height,
                            files |-> files]} :
          WriteRow(object_id, api_data, tab_data, scraped.raised, out, after, outcome)

ProcessObject ==
  /\ pc = "loop"
  /\ idx < Len(object_ids)
  /\ \E sc \in Scenarios(object_ids[idx + 1]), outcome \in SaveOutcomes :
       ProcessWith(object_ids[idx + 1], sc, outcome)
  /\ UNCHANGED <<env_offset, save_every, limit, start_offset_arg, requests, search_resp,
                 all_ids, start_offset, object_ids, call, ret>>

\* After the loop: browser.close(), then the final save.
Finalize ==
  /\ pc = "loop"
  /\ idx = Len(object_ids)
  /\ browser' = "closed"
  /\ saves' = saves + 1
  /\ \E outcome \in SaveOutcomes :
       /\ disk' = Save(disk, sheet, outcome)
       /\ IF outcome = "ok"
          THEN pc' = "done" /\ err' = ""
          ELSE pc' = "aborted" /\ err' = "save"
  /\ UNCHANGED <<env_offset, save_every, limit, start_offset_arg, requests, search_resp,
                 all_ids, start_offset, object_ids, sheet, images, row_height, files,
                 row_idx, processed, idx, loc, call, ret>>

Next == Main \/ CallFullScrape \/ Enumerate \/ Launch \/ ProcessObject \/ Finalize

Spec == Init /\ [][Next]_vars


\* ------------------------------------------------- one object, all inputs

\* A dict with key k bound to one of vals, or without it.
Optional(k, vals) == {EmptyDict} \cup {k :> v : v \in vals}

\* API records of object_id: each field present or not, images none to many,
\* text with control characters.
RichRecords(object_id) ==
  { a @@ b @@ c @@ d @@ e :
      a \in Optional("primaryImage", {EmptyStr, Url("main")}),
      b \in Optional("additionalImages",
                     {List(<<>>), List(UrlList("add", 1)),
                      List(UrlList("add", MAX_ADDITIONAL_IMAGES + 1))}),
      c \in Optional("title", {Str(<<"Sword", "x07", " ", "x09", "hilt">>),
                               Str(<<"x00", "x08", "\n", "x0B", "x0C", "\r", "x0E",
                                     "x1F", "x7F">>)}),
      d \in Optional("objectBeginDate", {Num(1500)}),
      e \in Optional("objectID", {Num(object_id)}) }

RichBrowsers ==
  {[GoodBrowser EXCEPT !.goto = "raise"]}
  \cup {[GoodBrowser EXCEPT !.images = UrlList("page", n)] :
          n \in {0, 1, 2, MAX_ADDITIONAL_IMAGES + 2}}

RichScenarios(object_id) ==
  { Scenario(api, b, long, "ok") :
      api \in {NetworkError} \cup
              {Response(FALSE, 200, "object", r) : r \in RichRecords(object_id)},
      b \in RichBrowsers,
      long \in {PageResponse(FALSE, 200, MetaPage), PageResponse(TRUE, 0, EmptyPage)} }

\* The run after the search returned one ID and the browser was launched.
InitRecord ==
  /\ pc = "loop"
  /\ env_offset = None
  /\ save_every = SAVE_EVERY_MAIN
  /\ limit = None
  /\ start_offset_arg = 0
  /\ requests = 1
  /\ search_resp = Response(FALSE, 200, "object", "objectIDs" :> List(IdList(1)))
  /\ all_ids = <<IdAt(1)>>
  /\ start_offset = 0
  /\ object_ids = <<IdAt(1)>>
  /\ sheet = <<Headers>>
  /\ images = <<>>
  /\ row_height = <<>>
  /\ files = {}
  /\ disk = NoFile
  /\ saves = 0
  /\ row_idx = 2
  /\ processed = 0
  /\ idx = 0
  /\ browser = "open"
  /\ err = ""
  /\ loc = NoLoc
  /\ call = NoCall
  /\ ret = NoRet

ProcessAnyObject ==
  /\ pc = "loop"
  /\ idx < Len(object_ids)
  /\ \E sc \in RichScenarios(object_ids[idx + 1]), outcome \in SaveOutcomes :
       ProcessWith(object_ids[idx + 1], sc, outcome)
  /\ UNCHANGED <<env_offset, save_every, limit, start_offset_arg, requests, search_resp,
                 all_ids, start_offset, object_ids, call, ret>>

NextRecord == ProcessAnyObject \/ Finalize

SpecRecord == InitRecord /\ [][NextRecord]_vars

\* ------------------------------------------------------ the helpers alone

TextA == <<"Artwork Details", "\n", "Overview", "\n", " ", "Steel", " ", "blade", " ", "\n">>
TextB == <<"Object Information", "\n", "Steel", " ", "blade", "\n", "References">>
TextC == <<"Ex", " ", "coll.", " ", "Dino", "\n", "\n", "Provenance">>
TextD == <<"Artwork Details", "\n", "Provenance">>

TabBrowsers ==
  { [goto |-> g, evaluate |-> e, title |-> <<" ", "Sword", "\n">>,
     images |-> UrlList("page", 1),
     tabs |-> ("Overview" :> ov)
              @@ ("Signatures, Inscriptions, and Markings" :> sig)
              @@ ("Provenance" :> prov) @@ ("References" :> ref)] :
      g \in {"ok", "raise"}, e \in {"ok", "raise"},
      ov \in {Tab("absent", <<>>), Tab("text", TextA), Tab("text", TextC),
              Tab("evalraise", <<>>)},
      sig \in {Tab("absent", <<>>), Tab("clickfail", <<>>), Tab("text", TextB),
               Tab("text", TextC), Tab("text", TextD)},
      prov \in {Tab("absent", <<>>), Tab("text", TextA), Tab("text", TextC)},
      ref \in {Tab("clickfail", <<>>), Tab("text", TextB), Tab("text", TextC),
               Tab("evalraise", <<>>)} }

InitTabs ==
  /\ NotStarted
  /\ call \in {[name |-> "scrape_tabs_for_object", args |-> <<IdAt(1), b>>] :
                 b \in TabBrowsers}
  /\ ret = NoRet

ScrapeTabs ==
  /\ call.name = "scrape_tabs_for_object"
  /\ ~ret.returned
  /\ \E r \in {scrape_tabs_for_object(call.args[1], call.args[2])} :
       ret' = [returned |-> TRUE, raised |-> r.raised, value |-> r.data]
  /\ UNCHANGED <<runVars, call>>

SpecTabs == InitTabs /\ [][ScrapeTabs]_vars

\* n words, a space between each two.
Words(n) == [i \in 1..(2 * n - 1) |-> IF i % 2 = 1 THEN "w" ELSE " "]
Span(wraps, nodes) == [wraps |-> wraps, nodes |-> nodes]

\* Marker spans: under a wrapper, long, of exactly MIN_WORDS words with the
\* wrapper too far up, empty under a wrapper, longer still.
SpanChoices ==
  { Span({2}, <<<<" ", "Read">>, <<"more", "\n">>>>),
    Span({}, <<Words(MIN_WORDS + 1)>>),
    Span({WRAPPER_LEVELS + 1}, <<Words(MIN_WORDS)>>),
    Span({WRAPPER_LEVELS}, <<<<" ">>, <<>>>>),
    Span({1, 3}, <<<<"Deep">>>>),
    Span({}, <<Words(MIN_WORDS + 1), <<"w">>>>) }

Pages ==
  { [spans |-> sp, meta |-> m, og |-> o, paras |-> ps] :
      sp \in {<<>>} \cup {<<a>> : a \in SpanChoices}
             \cup {<<a, b>> : a \in SpanChoices, b \in SpanChoices},
      m \in {None, EmptyStr, Str(<<" ">>), Str(<<"A", " ", "fine", " ", "blade.">>)},
      o \in {None, Str(<<"\n", "An", " ", "old", " ", "sword", " ">>)},
      ps \in {<<>>, << <<<<" ">>>> >>,
              << <<<<"One">>>>, <<>>, <<<<" ", "Two">>, <<"more">>>>, <<<<"Three">>>>,
                 <<<<"Four">>>> >>} }

LongDescCalls ==
  { [name |-> "fetch_long_description_from_html", args |-> <<url, resp>>] :
      url \in {PageUrl(IdAt(1))},
      resp \in {PageResponse(FALSE, 200, page) : page \in Pages} }
  \cup
  { [name |-> "fetch_long_description_from_html", args |-> <<url, resp>>] :
      url \in {EmptyStr, None, PageUrl(IdAt(1))},
      resp \in {PageResponse(TRUE, 0, EmptyPage), PageResponse(FALSE, 404, MetaPage),
                PageResponse(FALSE, 500, MetaPage), PageResponse(FALSE, 200, MetaPage)} }

InitLongDesc ==
  /\ NotStarted
  /\ call \in LongDescCalls
  /\ ret = NoRet

FetchLongDescription ==
  /\ call.name = "fetch_long_description_from_html"
  /\ ~ret.returned
  /\ \E r \in {fetch_long_description_from_html(call.args[1], call.args[2])} :
       ret' = [returned |-> TRUE, raised |-> FALSE, value |-> r]
  /\ UNCHANGED <<runVars, call>>

SpecLongDesc == InitLongDesc /\ [][FetchLongDescription]_vars

\* ---------------------------------------------------------------- properties

\* The sheet holds the header and one data row per ID of ids, in order (the
\* objectID is the second column, after the thumbnail).
OneRowPerId(ids) ==
  /\ Len(sheet) = Len(ids) + 1
  /\ sheet[1] = Headers
  /\ \A k \in 1..Len(ids) : sheet[k + 1][2] = Num(ids[k])

\* C1: when the run has ended, by completion or by anything other than a
\* failed search or a failed save, the sheet holds exactly one data row per
\* ID of all_ids[start_offset:], in the order of the ID list, whatever
\* failed for the objects on the way.
C1_OneRowPerId ==
  (pc = "done" \/ (pc = "aborted" /\ err \notin {"enumeration", "save"}))
    => OneRowPerId(SliceFrom(all_ids, start_offset))

\* C2: once the loop has started (the browser was launched), nothing but a
\* failed checkpoint or final save ends the run early: every exception of an
\* object's processing is caught and the loop goes on to finalization.
C2_OnlySaveEndsRun ==
  (pc = "aborted" /\ browser # "none") => err = "save"

\* C3: between objects the file on disk holds the header and the data rows
\* of the most recent checkpoint: none before the first, all rows written so
\* far right after every save_every-th object, and all rows at run end.
C3_CheckpointInvariant ==
  /\ pc = "loop" =>
       /\ Len(sheet) = processed + 1
       /\ disk = IF processed < save_every
                 THEN NoFile
                 ELSE SavedFile(SubSeq(sheet, 1, 1 + processed - (processed % save_every)))
  /\ (pc = "loop" /\ processed > 0 /\ processed % save_every = 0) =>
       /\ disk.exists /\ disk.valid
       /\ disk.rows = sheet
       /\ Len(disk.rows) = processed + 1
  /\ pc = "done" =>
       /\ disk = SavedFile(sheet)
       /\ Len(disk.rows) = processed + 1

\* A checkpoint lies behind and one more object was processed since.
C3_Witness ==
  /\ pc = "loop"
  /\ save_every = 2
  /\ processed = 3
  /\ disk.valid
  /\ Len(disk.rows) = 3
  /\ Len(sheet) = 4

\* C4: the start offset is clamped to [0, number of IDs] before the slice: a
\* negative offset takes all IDs, an offset beyond the total takes none and
\* the run still completes (only a failed save can end it), leaving a file
\* with the header alone, an offset in range takes the IDs from that position
\* on; __main__ reads the offset from START_OFFSET, 0 when unset or no number.
C4_OffsetClamped ==
  /\ (pc \in {"launch", "loop", "done"} \/ (pc = "aborted" /\ err # "enumeration")) =>
       /\ 0 <= start_offset /\ start_offset <= Len(all_ids)
       /\ start_offset_arg < 0 => object_ids = all_ids
       /\ start_offset_arg > Len(all_ids) =>
            /\ object_ids = <<>>
            /\ processed = 0 /\ idx = 0
            /\ err \in {"", "save"}
            /\ pc = "done" => disk = SavedFile(<<Headers>>)
       /\ (0 <= start_offset_arg /\ start_offset_arg <= Len(all_ids)) =>
            object_ids = SubSeq(all_ids, start_offset_arg + 1, Len(all_ids))
       /\ idx <= Len(object_ids)
  /\ (pc # "start" /\ save_every = SAVE_EVERY_MAIN) =>
       /\ env_offset \in {None, Str(<<"abc">>), Str(<<>>)} => start_offset_arg = 0
       /\ env_offset = Str(<<"-", "1">>) => start_offset_arg = 0 - 1
       /\ env_offset = Str(<<" ", "1", "\n">>) => start_offset_arg = 1
       /\ \A k \in 0..(MaxIds + 1) :
            env_offset = Str(<<ToString(k)>>) => start_offset_arg = k

\* An offset beyond a non-empty ID list: nothing processed, the run done.
C4_Witness ==
  /\ pc = "done"
  /\ Len(all_ids) > 0
  /\ start_offset_arg > Len(all_ids)
  /\ processed = 0
  /\ disk = SavedFile(<<Headers>>)

\* C5 as stated: a search response with a status that is no success (not
\* 2xx), or with malformed JSON, aborts the run.
C5_NonSuccessIsFatal ==
  (requests > 0 /\ ~search_resp.exc
     /\ (search_resp.status \notin 200..299 \/ search_resp.json = "malformed"))
    => (pc = "aborted" /\ err = "enumeration")

\* C5 as amended: a search response with an error status (4xx or 5xx), or
\* with malformed JSON, aborts the run after exactly one request, with no
\* object processed, no browser opened and no output file written; a
\* successful response without an objectIDs list gives the empty ID list.
C5_ErrorStatusIsFatal ==
  /\ requests <= 1
  /\ pc \notin {"start", "enumerating"} => requests = 1
  /\ (requests > 0 /\ ~search_resp.exc
        /\ (search_resp.status \in 400..599 \/ search_resp.json = "malformed"))
       => (pc = "aborted" /\ err = "enumeration")
  /\ err = "enumeration" =>
       /\ pc = "aborted"
       /\ requests = 1
       /\ processed = 0 /\ idx = 0 /\ sheet = <<>>
       /\ browser = "none"
       /\ disk = NoFile /\ saves = 0
  /\ (requests > 0 /\ ~search_resp.exc /\ search_resp.status \in 200..299
        /\ search_resp.json = "object" /\ "objectIDs" \notin DOMAIN search_resp.obj)
       => (err # "enumeration" /\ all_ids = <<>> /\ object_ids = <<>>)

\* The search answered 404 with a well-formed JSON body, and the run aborted.
C5_Witness ==
  /\ pc = "aborted"
  /\ err = "enumeration"
  /\ search_resp.status = 404
  /\ search_resp.json = "object"
  /\ requests = 1


\* The page images of the last object's page data.
LastPageImages == loc.tab_data["pageImageURLs"].list

\* The row written for the last object.
LastRow == sheet[Len(sheet)]

\* A row was written for the last object taken.
RowWritten == idx > 0 /\ ~loc.out.raised /\ Len(sheet) = idx + 1

\* C6: the primary image URL written for an object (the column after the
\* non-image fields) is the API's primaryImage when the API record holds a
\* non-empty one, otherwise the first image found on the page, otherwise
\* the empty string.
C6_PrimaryImage ==
  RowWritten =>
    LastRow[Len(NON_IMAGE_FIELDS) + 2] =
      IF "primaryImage" \in DOMAIN loc.api_data /\ loc.api_data["primaryImage"] # EmptyStr
      THEN loc.api_data["primaryImage"]
      ELSE IF LastPageImages # <<>> THEN LastPageImages[1] ELSE EmptyStr

\* The API record has no primary image and the page's first image was written.
C6_Witness ==
  /\ RowWritten
  /\ "primaryImage" \in DOMAIN loc.api_data
  /\ loc.api_data["primaryImage"] = EmptyStr
  /\ Len(LastPageImages) > 1
  /\ LastRow[Len(NON_IMAGE_FIELDS) + 2] = LastPageImages[1]

\* C7: the additional images of a record are the API's list when it holds
\* one, otherwise the images found on the page less the one used as the
\* primary image (none is dropped when the primary image came from the
\* API), in both cases cut to the first MAX_ADDITIONAL_IMAGES.
C7_AdditionalImages ==
  RowWritten =>
    LET api_list == IF "additionalImages" \in DOMAIN loc.api_data
                    THEN loc.api_data["additionalImages"].list ELSE <<>>
        from_page == IF loc.out.primary_image # EmptyStr /\ LastPageImages # <<>>
                        /\ ~("primaryImage" \in DOMAIN loc.api_data
                             /\ loc.api_data["primaryImage"] # EmptyStr)
                     THEN Tail(LastPageImages)
                     ELSE LastPageImages
        all == IF api_list # <<>> THEN api_list ELSE from_page
    IN /\ Len(loc.out.additional_images) <= MAX_ADDITIONAL_IMAGES
       /\ loc.out.additional_images =
            SubSeq(all, 1, Min(Len(all), MAX_ADDITIONAL_IMAGES))

\* The panel texts scrape_tabs_for_object extracted, before the clone rule.
Extracted(label) == PanelText(call.args[2].tabs[label])

\* scrape_tabs_for_object returned the data of a page that loaded.
TabsReturned ==
  /\ call.name = "scrape_tabs_for_object"
  /\ ret.returned /\ ~ret.raised
  /\ call.args[2].goto = "ok"

\* C8: in the page data of scrape_tabs_for_object the Signatures text is
\* emptied when it equals the Overview text and kept when it differs, the
\* References text likewise against the Provenance text; the Overview and
\* Provenance texts are always the extracted ones.
C8_CloneRule ==
  TabsReturned =>
    /\ ret.value["artworkOverviewText"] = Extracted("Overview")
    /\ ret.value["provenanceText"] = Extracted("Provenance")
    /\ ret.value["signaturesInscriptionsMarkingsText"] =
         IF Extracted("Signatures, Inscriptions, and Markings") = Extracted("Overview")
         THEN EmptyStr
         ELSE Extracted("Signatures, Inscriptions, and Markings")
    /\ ret.value["referencesText"] =
         IF Extracted("References") = Extracted("Provenance")
         THEN EmptyStr
         ELSE Extracted("References")

\* Two tabs showed the same non-empty text from different containers: the
\* Signatures text was emptied, the Overview text kept.
C8_Witness ==
  /\ TabsReturned
  /\ call.args[2].tabs["Overview"].raw # call.args[2].tabs["Signatures, Inscriptions, and Markings"].raw
  /\ Extracted("Overview") # EmptyStr
  /\ Extracted("Signatures, Inscriptions, and Markings") = Extracted("Overview")
  /\ ret.value["signaturesInscriptionsMarkingsText"] = EmptyStr
  /\ ret.value["artworkOverviewText"] = Extracted("Overview")
  /\ Extracted("References") # Extracted("Provenance")
  /\ ret.value["referencesText"] = Extracted("References")
  /\ ret.value["referencesText"] # EmptyStr

\* The text of each marker span of the page fetched, in page order.
SpanTexts == [i \in 1..Len(call.args[2].page.spans) |->
                get_text(call.args[2].page.spans[i].nodes, <<" ">>)]

\* What each step of the chain yields for the page fetched, <<>> when the
\* step fails: given the span texts t.
StepResult(step, t) ==
  LET page == call.args[2].page
      under == {i \in 1..Len(t) :
                  t[i] # <<>> /\ page.spans[i].wraps \cap (1..6) # {}}
      long == {i \in 1..Len(t) : WordCount(t[i]) > 30}
      texts == SelectSeq([i \in 1..Len(page.paras) |-> get_text(page.paras[i], <<" ">>)],
                         LAMBDA x : x # <<>>)
  IN CASE step = 1 ->
            IF under = {} THEN <<>> ELSE t[CHOOSE i \in under : \A j \in under : i <= j]
       [] step = 2 ->
            IF long = {} THEN <<>>
            ELSE t[CHOOSE i \in long :
                     \A j \in long : \/ WordCount(t[j]) < WordCount(t[i])
                                     \/ (WordCount(t[j]) = WordCount(t[i]) /\ i <= j)]
       [] step = 3 -> IF page.meta.kind = "str" THEN StripTokens(page.meta.str) ELSE <<>>
       [] step = 4 -> IF page.og.kind = "str" THEN StripTokens(page.og.str) ELSE <<>>
       [] OTHER ->
            IF texts = <<>> THEN <<>>
            ELSE IF Len(texts) = 1 THEN texts[1]
            ELSE IF Len(texts) = 2 THEN texts[1] \o <<"\n", "\n">> \o texts[2]
            ELSE texts[1] \o <<"\n", "\n">> \o texts[2] \o <<"\n", "\n">> \o texts[3]

LongDescReturned ==
  call.name = "fetch_long_description_from_html" /\ ret.returned

\* C9: fetch_long_description_from_html never raises; on an empty URL or a
\* fetch that fails (exception, status other than 200) it returns the empty
\* string; otherwise it returns what the first successful step yields, in
\* the order (1) first marker span under a read-more ancestor within 6
\* levels, (2) the marker span with the most words, above 30, (3) the meta
\* description, (4) the Open Graph description, (5) the first three
\* paragraphs joined by blank lines, and the empty string when none
\* succeeds; a page with no marker span and the meta description
\* "A fine blade." gives exactly that.
C9_FallbackChain ==
  LongDescReturned =>
    LET url == call.args[1]
        resp == call.args[2]
    IN /\ ~ret.raised
       /\ ret.value.kind = "str"
       /\ (url \in {EmptyStr, None} \/ resp.exc \/ resp.status # 200) => ret.value = EmptyStr
       /\ (url \notin {EmptyStr, None} /\ ~resp.exc /\ resp.status = 200) =>
            \E t \in {SpanTexts} :
              /\ \A k \in 1..5 :
                   (StepResult(k, t) # <<>> /\ \A j \in 1..(k - 1) : StepResult(j, t) = <<>>)
                     => ret.value.str = StepResult(k, t)
              /\ (\A k \in 1..5 : StepResult(k, t) = <<>>) => ret.value = EmptyStr
              /\ (resp.page.spans = <<>>
                    /\ resp.page.meta = Str(<<"A", " ", "fine", " ", "blade.">>))
                   => ret.value = Str(<<"A", " ", "fine", " ", "blade.">>)

\* No marker span, a meta description and later sources too: the meta
\* description was returned.
C9_Witness ==
  /\ LongDescReturned
  /\ call.args[2].status = 200 /\ ~call.args[2].exc
  /\ call.args[2].page.spans = <<>>
  /\ call.args[2].page.meta = Str(<<"A", " ", "fine", " ", "blade.">>)
  /\ call.args[2].page.og # None
  /\ call.args[2].page.paras # <<>>
  /\ ret.value = Str(<<"A", " ", "fine", " ", "blade.">>)

\* The characters a cell may not hold: 0x00-0x08, 0x0B-0x0C, 0x0E-0x1F.
IllegalCodes == (0..8) \cup (11..12) \cup (14..31)
IsIllegal(tok) == tok \in DOMAIN CharCode /\ CharCode[tok] \in IllegalCodes

\* C10: every string cell of a data row is written as the value the row was
\* built from with exactly the illegal control characters removed and every
\* other character kept in order; a value that is no string is written
\* unchanged; sanitizing a written value again changes nothing.
C10_Sanitized ==
  RowWritten =>
    /\ Len(LastRow) = Len(loc.out.raw)
    /\ \A i \in 1..Len(LastRow) :
         \E v \in {loc.out.raw[i]}, w \in {LastRow[i]} :
           /\ v.kind = "str" =>
                /\ w.kind = "str"
                /\ \A k \in 1..Len(w.str) : ~IsIllegal(w.str[k])
                /\ w.str = SelectSeq(v.str, LAMBDA tok : ~IsIllegal(tok))
           /\ v.kind # "str" => w = v
           /\ clean_for_excel(w) = w

\* A title with BEL and a tab was written without the BEL, the tab kept,
\* beside a number written as it was.
C10_Witness ==
  /\ RowWritten
  /\ \E i \in 1..Len(LastRow) :
       /\ loc.out.raw[i] = Str(<<"Sword", "x07", " ", "x09", "hilt">>)
       /\ LastRow[i] = Str(<<"Sword", " ", "x09", "hilt">>)
  /\ \E i \in 1..Len(LastRow) : LastRow[i] = Num(1500)


\* full_scrape has made its workbook and has not failed before the loop.
InLoop == pc \in {"launch", "loop", "done"} \/ (pc = "aborted" /\ err # "enumeration")

\* row_idx is processed + 2 and the row the next append lands on; every
\* thumbnail sits in the thumbnail column of a data row, no two on one row.
RowAligned ==
  InLoop =>
    /\ row_idx = processed + 2
    /\ row_idx = Len(sheet) + 1
    /\ \A i \in 1..Len(images) :
         /\ images[i].anchor[1] = primary_thumb_col
         /\ images[i].anchor[2] \in 2..Len(sheet)
         /\ \A j \in 1..Len(images) : images[i].anchor[2] = images[j].anchor[2] => i = j

\* A step that embeds a thumbnail is the step of the k-th processed object,
\* and anchors it to row k + 1, the row appended for that object in the same
\* step; the thumbnails already embedded stay where they are.
ThumbnailOnOwnRow ==
  /\ Len(images') >= Len(images)
  /\ SubSeq(images', 1, Len(images)) = images
  /\ Len(images') <= Len(images) + 1
  /\ Len(images') = Len(images) + 1 =>
       /\ processed' = processed + 1
       /\ images'[Len(images')].anchor = <<primary_thumb_col, processed' + 1>>
       /\ Len(sheet') = processed' + 1
       /\ sheet'[processed' + 1] = loc'.out.row
       /\ sheet'[processed' + 1][2] = Num(loc'.object_id)

\* C11: throughout the processing loop row_idx equals processed + 2 and is
\* the sheet row the next append lands on, and the thumbnail of the k-th
\* processed object is anchored to the thumbnail cell of that object's own
\* data row, row k + 1, never to the header or to another object's row,
\* also after objects whose embed was skipped or failed.
C11_RowAlignment == []RowAligned /\ [][ThumbnailOnOwnRow]_vars

\* Three objects processed: the embed of the first was skipped or failed,
\* the second and third have their thumbnails on rows 3 and 4.
C11_Witness ==
  /\ pc = "loop"
  /\ processed = 3
  /\ row_idx = 5
  /\ Len(images) = 2
  /\ images[1].anchor = <<primary_thumb_col, 3>>
  /\ images[2].anchor = <<primary_thumb_col, 4>>
  /\ 2 \notin DOMAIN row_height
  /\ sheet[4][2] = Num(loc.object_id)

====
